---------------------------- MODULE Spec2Model ----------------------------
(***************************************************************************)
(* Model of the network automation framework: the DeviceManager session    *)
(* (scripts/device_manager.py), the backup, deploy and compliance          *)
(* orchestrators (scripts/config_backup.py, scripts/config_deploy.py,      *)
(* scripts/config_compliance.py) and the compliance rule engine.           *)
(*                                                                         *)
(* Strings are sequences of one-character strings.  Python's None is the   *)
(* value NoneVal, which is no string of the model.  Percentages are kept   *)
(* in hundredths of a percent (60.00 is 6000), so round(x, 2) is a         *)
(* rounding to an integer.                                                 *)
(***************************************************************************)
EXTENDS Integers, Sequences, FiniteSets, TLC

(***************************************************************************)
(* Bounds of the model.                                                    *)
(***************************************************************************)
MaxDevices == 3
MaxRules == 3
MaxScoreRules == 5
MaxTextLen == 3
MaxPatLen == 2
MaxClock == 2
MaxMatchLen == 6
MaxFileRules == 2
MaxCalls == 3
MaxFileLines == 2

(***************************************************************************)
(* Values and strings.                                                     *)
(***************************************************************************)
NoneVal == <<"<None>">>

IsNone(x) == x = NoneVal

\* Python truthiness of an optional string: None and '' are falsy.
Truthy(x) == x # NoneVal /\ x # <<>>

\* Characters of configuration texts, patterns and command outputs.
Chars == {"a", "A"}

\* '(' alone is a regular expression that does not compile.
ParenChar == "("

RECURSIVE StringsUpTo(_, _)
StringsUpTo(alphabet, n) ==
    IF n = 0 THEN {<<>>}
    ELSE LET shorter == StringsUpTo(alphabet, n - 1)
         IN  shorter \cup {Append(s, c) : s \in shorter, c \in alphabet}

Texts == StringsUpTo(Chars, MaxTextLen)
Patterns == StringsUpTo(Chars, MaxPatLen)

\* s[from..to] as Python slices: s[from-1:to]
Slice(s, from, to) == SubSeq(s, from, to)

\* str.lower() on the characters of the model
Lower(s) == [n \in 1..Len(s) |-> IF s[n] = "A" THEN "a" ELSE s[n]]

\* A containment test that ignores letter case.
Contains_IgnoresCase(T, p) ==
    \E n \in 0..(Len(T) - Len(p)) :
        Lower(Slice(T, n + 1, n + Len(p))) = Lower(p)

\* Python's  p in T  for two strings: an exact, case-sensitive substring.
Contains(T, p) ==
    \E k \in 0..(Len(T) - Len(p)) : Slice(T, k + 1, k + Len(p)) = p

\* s[:n]
Take(s, n) == IF Len(s) <= n THEN s ELSE Slice(s, 1, n)

\* str.startswith
StartsWith(s, prefix) ==
    Len(prefix) <= Len(s) /\ Slice(s, 1, Len(prefix)) = prefix


(***************************************************************************)
(* Rounding.  round(num/den, 2) of a value held in hundredths is a nearest *)
(* integer to num/den.  Python rounds the binary float, so on an exact tie *)
(* either neighbour can come out: Round2 is the set of admissible results. *)
(***************************************************************************)
Round2(num, den) ==
    LET q == num \div den
        r == num % den
    IN  IF 2 * r < den THEN {q}
        ELSE IF 2 * r > den THEN {q + 1}
        ELSE {q, q + 1}

(***************************************************************************)
(* ComplianceRule (config_compliance.py).                                  *)
(***************************************************************************)
RuleTypes == {"must_contain", "must_not_contain", "regex", "command"}

\* ComplianceRule.__init__: pattern, required_value and command default to None.
ComplianceRule(name, rule_type, pattern, required_value, command) ==
    [name |-> name, rule_type |-> rule_type, pattern |-> pattern,
     required_value |-> required_value, command |-> command]

\* matches[:5] and output[:200]
MatchLimit == 5
DetailsLimit == 200

\* str(e) of the exceptions the rule engine can meet.
ErrNotIterable == <<"argument of type 'NoneType' is not iterable">>
ErrLeftOperand == <<"'in <string>' requires string as left operand, not NoneType">>
ErrRegexPattern == <<"first argument must be string or compiled pattern">>
ErrRegexCompile == <<"missing ), unterminated subpattern at position 0">>
ErrRegexText == <<"expected string or bytes-like object, got 'NoneType'">>
NoError == <<>>

\* The exception, if any, of  pattern in config_text  (left operand p, right T).
InError(p, T) ==
    IF IsNone(T) THEN ErrNotIterable
    ELSE IF IsNone(p) THEN ErrLeftOperand
    ELSE NoError

\* re.compile fails on an unbalanced parenthesis.
RegexCompiles(p) == \A k \in 1..Len(p) : p[k] # ParenChar

\* '.' in a regular expression matches any character of a line.
DotChar == "."

\* The pattern p, of literal characters and '.', matches the string s.
Matches(p, s) ==
    Len(p) = Len(s) /\ \A n \in 1..Len(p) : p[n] = DotChar \/ p[n] = s[n]

\* re.findall(p, T, re.MULTILINE) for a pattern of literals and '.': the
\* non-overlapping matches from the left, each the text matched; the empty
\* pattern matches at every position.
RECURSIVE FindAll(_, _, _)
FindAll(p, T, pos) ==
    IF pos > Len(T) THEN <<>>
    ELSE IF p = <<>> THEN <<p>> \o FindAll(p, T, pos + 1)
    ELSE IF pos + Len(p) <= Len(T) /\ Matches(p, Slice(T, pos + 1, pos + Len(p)))
         THEN <<Slice(T, pos + 1, pos + Len(p))>> \o FindAll(p, T, pos + Len(p))
         ELSE FindAll(p, T, pos + 1)

RegexError(p, T) ==
    IF IsNone(p) THEN ErrRegexPattern
    ELSE IF ~RegexCompiles(p) THEN ErrRegexCompile
    ELSE IF IsNone(T) THEN ErrRegexText
    ELSE NoError

Message(text, arg) == [text |-> text, arg |-> arg]
NoDetails == [kind |-> "None", val |-> <<>>]

Verdict(rule, compliant, message, details) ==
    [rule |-> rule.name, compliant |-> compliant, message |-> message,
     details |-> details]

\* except Exception as e: result['message'] = f"Error checking rule: {str(e)}"
ErrorVerdict(rule, err) ==
    Verdict(rule, FALSE, Message("Error checking rule: ", err), NoDetails)

\* if self.pattern in config_text (lines 58-63)
MustContainVerdict(rule, config_text) ==
    IF InError(rule.pattern, config_text) # NoError
    THEN ErrorVerdict(rule, InError(rule.pattern, config_text))
    ELSE IF Contains(config_text, rule.pattern)
    THEN Verdict(rule, TRUE, Message("Required pattern found: ", rule.pattern),
                 NoDetails)
    ELSE Verdict(rule, FALSE, Message("Missing required pattern: ", rule.pattern),
                 NoDetails)

\* if self.pattern not in config_text (lines 65-70)
MustNotContainVerdict(rule, config_text) ==
    IF InError(rule.pattern, config_text) # NoError
    THEN ErrorVerdict(rule, InError(rule.pattern, config_text))
    ELSE IF ~Contains(config_text, rule.pattern)
    THEN Verdict(rule, TRUE, Message("Forbidden pattern not found (good)", <<>>),
                 NoDetails)
    ELSE Verdict(rule, FALSE, Message("Forbidden pattern found: ", rule.pattern),
                 NoDetails)

\* A regex branch that reports every match as evidence.
RegexVerdict_KeepsAllMatches(rule, config_text) ==
    IF RegexError(rule.pattern, config_text) # NoError
    THEN ErrorVerdict(rule, RegexError(rule.pattern, config_text))
    ELSE LET matches == FindAll(rule.pattern, config_text, 0)
         IN  IF matches # <<>>
             THEN Verdict(rule, TRUE, Message("Pattern matched", <<>>),
                          [kind |-> "matches", val |-> matches])
             ELSE Verdict(rule, FALSE,
                          Message("Pattern not matched: ", rule.pattern), NoDetails)

\* matches = re.findall(...); if matches (lines 72-79)
RegexVerdict(rule, config_text) ==
    IF RegexError(rule.pattern, config_text) # NoError
    THEN ErrorVerdict(rule, RegexError(rule.pattern, config_text))
    ELSE LET matches == FindAll(rule.pattern, config_text, 0)
         IN  IF matches # <<>>
             THEN Verdict(rule, TRUE, Message("Pattern matched", <<>>),
                          [kind |-> "matches", val |-> Take(matches, MatchLimit)])
             ELSE Verdict(rule, FALSE,
                          Message("Pattern not matched: ", rule.pattern), NoDetails)

\* A command branch that skips the rule silently without a device manager.
CommandVerdict_SkipsSilently(rule, has_dm, output) ==
    IF has_dm
    THEN IF InError(rule.required_value, output) # NoError
         THEN ErrorVerdict(rule, InError(rule.required_value, output))
         ELSE Verdict(rule, Contains(output, rule.required_value),
                      Message(IF Contains(output, rule.required_value)
                              THEN "Command validation passed"
                              ELSE "Command validation failed", <<>>),
                      [kind |-> "output", val |-> <<Take(output, DetailsLimit)>>])
    ELSE Verdict(rule, FALSE, Message("", <<>>), NoDetails)

\* The command branch (lines 81-91): output is what
\* device_manager.send_command(self.command) returned.
CommandVerdict(rule, has_dm, output) ==
    IF has_dm
    THEN IF InError(rule.required_value, output) # NoError
         THEN ErrorVerdict(rule, InError(rule.required_value, output))
         ELSE Verdict(rule, Contains(output, rule.required_value),
                      Message(IF Contains(output, rule.required_value)
                              THEN "Command validation passed"
                              ELSE "Command validation failed", <<>>),
                      [kind |-> "output", val |-> <<Take(output, DetailsLimit)>>])
    ELSE Verdict(rule, FALSE,
                 Message("No device manager provided for command check", <<>>),
                 NoDetails)

\* ComplianceRule.check(config_text, device_manager).  has_dm is the truth
\* value of device_manager, output what device_manager.send_command returned
\* (read only by a command rule with a device manager).  A rule of no known
\* type leaves the initial result: not compliant, empty message.
check(rule, config_text, has_dm, output) ==
    CASE rule.rule_type = "must_contain" -> MustContainVerdict(rule, config_text)
      [] rule.rule_type = "must_not_contain" ->
           MustNotContainVerdict(rule, config_text)
      [] rule.rule_type = "regex" -> RegexVerdict(rule, config_text)
      [] rule.rule_type = "command" -> CommandVerdict(rule, has_dm, output)
      [] OTHER -> Verdict(rule, FALSE, Message("", <<>>), NoDetails)

(***************************************************************************)
(* Device descriptors.  A key a descriptor does not hold is NoneVal.       *)
(***************************************************************************)
R1 == <<"r", "1">>
R10 == <<"r", "1", "0">>
Unknown == <<"u", "n", "k", "n", "o", "w", "n">>
CiscoIos == <<"c", "i", "s", "c", "o", "_", "i", "o", "s">>
JuniperJunos == <<"j", "u", "n", "i", "p", "e", "r", "_", "j", "u", "n", "o", "s">>
Cisco == <<"c", "i", "s", "c", "o">>
Juniper == <<"j", "u", "n", "i", "p", "e", "r">>
Arista == <<"a", "r", "i", "s", "t", "a">>

AristaEos == <<"a", "r", "i", "s", "t", "a", "_", "e", "o", "s">>
Linux == <<"l", "i", "n", "u", "x">>
JuniperJunosUpper ==
    <<"J", "U", "N", "I", "P", "E", "R", "_", "J", "U", "N", "O", "S">>

Descriptor(host, device_type) == [host |-> host, device_type |-> device_type]

Descriptors ==
    {Descriptor(R1, CiscoIos), Descriptor(R10, JuniperJunos),
     Descriptor(NoneVal, CiscoIos)}

\* dict.get(key, default)
Get(value, default) == IF IsNone(value) THEN default ELSE value

RECURSIVE ListsUpTo(_, _)
ListsUpTo(S, n) ==
    IF n = 0 THEN {<<>>}
    ELSE LET shorter == ListsUpTo(S, n - 1)
         IN  shorter \cup {Append(l, x) : l \in shorter, x \in S}

(***************************************************************************)
(* DeviceManager (device_manager.py).  connection is whether the manager   *)
(* holds a transport handle (self.connection is not None), open whether    *)
(* the channel behind that handle is open on the transport.                *)
(***************************************************************************)
DeviceManager(device_config) ==
    [exists |-> TRUE, device_config |-> device_config, connection |-> FALSE,
     connected |-> FALSE, open |-> FALSE]

\* device_manager = None
NoManager ==
    [exists |-> FALSE, device_config |-> Descriptor(NoneVal, NoneVal),
     connection |-> FALSE, connected |-> FALSE, open |-> FALSE]

\* Commands as they go to the transport.
CmdShowRunningConfig == <<"show running-config">>
CmdShowConfiguration == <<"show configuration">>
CmdCommit == <<"commit">>
CmdSaveConfig == <<"save_config()">>
CmdSendConfigSet == <<"send_config_set()">>
CmdRule == <<"show version">>

\* connect(): transport_ok is whether ConnectHandler returns a channel.
\* ret is "True", "False" or "KeyError": a descriptor without 'host' makes
\* the pop raise, and the handler's own log line reads ['host'] again, so
\* the KeyError leaves connect before self.connected is written.
connect(m, transport_ok) ==
    IF IsNone(m.device_config.host)
    THEN [dm |-> m, ret |-> "KeyError", dropped |-> FALSE]
    ELSE IF transport_ok
    THEN [dm |-> [m EXCEPT !.connection = TRUE, !.connected = TRUE, !.open = TRUE],
          ret |-> "True", dropped |-> m.open]
    ELSE [dm |-> [m EXCEPT !.connected = FALSE], ret |-> "False", dropped |-> FALSE]

\* A disconnect that closes the channel and forgets the connected flag.
disconnect_KeepsFlag(m) ==
    IF m.connection
    THEN [m EXCEPT !.open = FALSE]
    ELSE m

\* A disconnect that drops the transport handle the first time and fails
\* to find it the second time.
disconnect_ForgetsHandle(m) ==
    IF m.connected
    THEN [m EXCEPT !.connected = FALSE, !.open = FALSE]
    ELSE [m EXCEPT !.connected = TRUE]

\* disconnect()
disconnect(m) ==
    IF m.connection
    THEN [m EXCEPT !.connected = FALSE, !.open = FALSE]
    ELSE m

\* What the transport can answer to a command: a text, or an exception
\* (NoneVal); on a closed channel only the exception.
TransportAnswers(m, texts) == IF m.open THEN texts \cup {NoneVal} ELSE {NoneVal}

\* send_command(command): answer is the transport's answer; without a
\* connection the command is not forwarded and None is returned.
send_command(m, command, answer) ==
    IF ~m.connection
    THEN [out |-> NoneVal, sent |-> <<>>]
    ELSE [out |-> answer, sent |-> <<[cmd |-> command, out |-> answer]>>]

\* send_config(config_commands)
send_config(m, config_commands, answer) ==
    IF ~m.connection
    THEN [out |-> NoneVal, sent |-> <<>>]
    ELSE [out |-> answer, sent |-> <<[cmd |-> CmdSendConfigSet, out |-> answer]>>]

\* A dispatch whose fallback for an unmatched family is 'show configuration'.
ReadCommand_FallsBackToShowConfiguration(device_type) ==
    IF Contains(device_type, Cisco) THEN CmdShowRunningConfig
    ELSE IF Contains(device_type, Juniper) THEN CmdShowConfiguration
    ELSE IF Contains(device_type, Arista) THEN CmdShowRunningConfig
    ELSE CmdShowConfiguration

\* The read command get_running_config selects for a device family.
ReadCommand(device_type) ==
    IF Contains(device_type, Cisco) THEN CmdShowRunningConfig
    ELSE IF Contains(device_type, Juniper) THEN CmdShowConfiguration
    ELSE IF Contains(device_type, Arista) THEN CmdShowRunningConfig
    ELSE CmdShowRunningConfig

\* get_running_config()
get_running_config(m, answer) ==
    send_command(m, ReadCommand(Get(m.device_config.device_type, <<>>)), answer)

\* save_config(): the juniper branch goes through send_command, which
\* swallows every failure; the other branches call the transport directly.
\* The log line after the save reads ['host'] inside the try.
save_config(m, answer) ==
    LET device_type == Get(m.device_config.device_type, <<>>)
    IN  IF ~Contains(device_type, Cisco) /\ Contains(device_type, Juniper)
        THEN [ret |-> ~IsNone(m.device_config.host),
              sent |-> send_command(m, CmdCommit, answer).sent]
        ELSE IF ~m.connection
        THEN [ret |-> FALSE, sent |-> <<>>]
        ELSE [ret |-> ~IsNone(answer),
              sent |-> <<[cmd |-> CmdSaveConfig, out |-> answer]>>]

(***************************************************************************)
(* The backup directory: files [name, text].  A backup of host h written   *)
(* at time t is named h_<t>.txt; the fixed-width timestamp is one digit.   *)
(***************************************************************************)
TxtSuffix == ".txt"
Digits == <<"0", "1", "2", "3", "4", "5", "6", "7", "8", "9">>

\* datetime.now().strftime(...)
Timestamp(t) == <<Digits[t + 1]>>

FileName(hostname, t) == hostname \o <<"_">> \o Timestamp(t) \o <<TxtSuffix>>

File(hostname, t, text) == [name |-> FileName(hostname, t), text |-> text]

\* Code-point order of the characters of file names.
CharOrder ==
    <<TxtSuffix, "0", "1", "2", "3", "4", "5", "6", "7", "8", "9", "A", "_",
      "a", "k", "n", "o", "r", "u", "w">>

Ord(c) == CHOOSE n \in 1..Len(CharOrder) : CharOrder[n] = c

\* a < b as Python compares strings
RECURSIVE LexLess(_, _)
LexLess(a, b) ==
    IF b = <<>> THEN FALSE
    ELSE IF a = <<>> THEN TRUE
    ELSE IF Head(a) = Head(b) THEN LexLess(Tail(a), Tail(b))
    ELSE Ord(Head(a)) < Ord(Head(b))

\* f.startswith(hostname) and f.endswith('.txt')
BackupsOf(files, hostname) ==
    {f \in files : StartsWith(f.name, hostname) /\ f.name[Len(f.name)] = TxtSuffix}

\* sorted(backups)[-1]
LatestBackup(found) ==
    CHOOSE f \in found : \A g \in found : g = f \/ LexLess(g.name, f.name)

\* open(filepath, 'w').write(config): a file of that name is replaced.
WriteBackup(files, hostname, t, text) ==
    {f \in files : f.name # FileName(hostname, t)} \cup {File(hostname, t, text)}

(***************************************************************************)
(* State.                                                                  *)
(***************************************************************************)
VARIABLES
    op,           \* the entry point running: "backup", "check", "deploy", "rule"
    check_live,   \* check_all_devices' check_live argument
    devices,      \* the device list load_devices_from_yaml returned
    rules,        \* ComplianceChecker.rules
    rules_file,   \* the content of the rules file
    commands,     \* the command lines to deploy
    config_file,  \* the configuration file to deploy from, if any
    backups,      \* the files of the backup directory
    backup_dir,   \* whether the backup directory exists
    clock,        \* datetime.now()
    pc,           \* position of the running call
    i,            \* index of the device the orchestrator loop is at
    k,            \* index of the rule check_device's loop is at
    dm,           \* the operation's device_manager
    leaked,       \* channels still open whose manager is out of scope
    wire,         \* what the current manager forwarded to the transport
    config,       \* backup_device's config, check_device's config_text
    results,      \* check_device's results
    summary,      \* the orchestrator's summary
    total_score,  \* check_all_devices' total_score
    ret           \* the pending return value of the device operation

vars ==
    <<op, check_live, devices, rules, rules_file, commands, config_file,
      backups, backup_dir, clock, pc, i, k, dm, leaked, wire, config, results,
      summary, total_score, ret>>

\* device.get('host', 'unknown')
Hostname(device) == Get(device.host, Unknown)

\* Texts a device answers with in the orchestrator runs.
DeviceTexts == {<<>>, <<"a">>}

\* A run over a single device draws answers from a larger set.
SingleDeviceTexts == DeviceTexts \cup {<<"A", "a">>}

AnswerTexts ==
    IF op = "rule" THEN Texts
    ELSE IF Len(devices) <= 1 THEN SingleDeviceTexts
    ELSE DeviceTexts

\* The rules file: missing, not parseable, or a list of rule records; a
\* record is complete when it has the keys 'name', 'description' and 'type'.
RuleData(rule, complete) == [rule |-> rule, complete |-> complete]

NoFile == [kind |-> "missing", data |-> <<>>]
InvalidFile == [kind |-> "invalid", data |-> <<>>]

\* The file load_rules read the rule list rls from.
FileOf(rls) ==
    [kind |-> "rules", data |-> [n \in 1..Len(rls) |-> RuleData(rls[n], TRUE)]]

\* The configuration file handed to deploy_from_file: its lines, as
\* config_text.split('\n') gives them.
ConfigFile(lines) == [exists |-> TRUE, lines |-> lines]
NoConfigFile == [exists |-> FALSE, lines |-> <<>>]

SpaceChar == " "
HashChar == "#"

\* str.strip() for the whitespace of the model
RECURSIVE LStrip(_)
LStrip(s) == IF s # <<>> /\ Head(s) = SpaceChar THEN LStrip(Tail(s)) ELSE s

RECURSIVE RStrip(_)
RStrip(s) ==
    IF s # <<>> /\ s[Len(s)] = SpaceChar THEN RStrip(SubSeq(s, 1, Len(s) - 1))
    ELSE s

Strip(s) == RStrip(LStrip(s))

IsCommandLine(line) == Strip(line) # <<>> /\ ~StartsWith(Strip(line), <<HashChar>>)

\* [line.strip() for line in config_text.split('\n')
\*  if line.strip() and not line.strip().startswith('#')]
ParseCommands(lines) ==
    LET kept == SelectSeq(lines, IsCommandLine)
    IN  [n \in 1..Len(kept) |-> Strip(kept[n])]

\* A manager going out of scope with its channel open leaks the channel.
LeakedAfter(m) == leaked + (IF m.open THEN 1 ELSE 0)

\* check_device's fresh results record (lines 198-206).
FreshResults(device) ==
    [device |-> Hostname(device), total_rules |-> Len(rules), passed |-> 0,
     failed |-> 0, compliance_score |-> 0, rule_results |-> <<>>]

(***************************************************************************)
(* ConfigBackup (config_backup.py).                                        *)
(***************************************************************************)
\* A bookkeeping that lists only the devices backed up.
BackupRecorded_DropsFailed(sum, device, success) ==
    IF success
    THEN [sum EXCEPT !.successful = @ + 1,
                     !.devices = Append(@, [host |-> Hostname(device),
                                            status |-> "success"])]
    ELSE [sum EXCEPT !.failed = @ + 1]

\* backup_all_devices' bookkeeping for one device (lines 101-111).
BackupRecorded(sum, device, success) ==
    IF success
    THEN [sum EXCEPT !.successful = @ + 1,
                     !.devices = Append(@, [host |-> Hostname(device),
                                            status |-> "success"])]
    ELSE [sum EXCEPT !.failed = @ + 1,
                     !.devices = Append(@, [host |-> Hostname(device),
                                            status |-> "failed"])]

\* The loop takes the next device: backup_device builds its DeviceManager.
BackupStart ==
    /\ op = "backup" /\ pc = "loop" /\ i <= Len(devices)
    /\ dm' = DeviceManager(devices[i])
    /\ leaked' = LeakedAfter(dm)
    /\ wire' = <<>>
    /\ config' = NoneVal
    /\ pc' = "connect"
    /\ UNCHANGED <<op, check_live, devices, rules, rules_file, commands,
                   config_file, backups, backup_dir, clock, i, k, results,
                   summary, total_score, ret>>

\* if not device_manager.connect(): return False.  The call is outside the
\* try, so an exception of connect leaves backup_device and the loop.
BackupConnect ==
    /\ op = "backup" /\ pc = "connect"
    /\ \E transport_ok \in BOOLEAN :
         LET r == connect(dm, transport_ok)
         IN  /\ dm' = r.dm
             /\ leaked' = leaked + (IF r.dropped THEN 1 ELSE 0)
             /\ CASE r.ret = "True" ->
                       /\ pc' = "get_config"
                       /\ UNCHANGED <<summary, i, ret>>
                  [] r.ret = "False" ->
                       /\ ret' = FALSE
                       /\ summary' = BackupRecorded(summary, devices[i], FALSE)
                       /\ i' = i + 1
                       /\ pc' = "loop"
                  [] OTHER ->
                       /\ pc' = "raised"
                       /\ UNCHANGED <<summary, i, ret>>
    /\ UNCHANGED <<op, check_live, devices, rules, rules_file, commands,
                   config_file, backups, backup_dir, clock, k, wire, config,
                   results, total_score>>

\* A retrieval step that takes only a failed read, not an empty output, as
\* failure.
BackupGetConfig_AcceptsEmptyOutput ==
    /\ op = "backup" /\ pc = "get_config"
    /\ \E answer \in TransportAnswers(dm, AnswerTexts) :
         LET r == get_running_config(dm, answer)
         IN  /\ config' = r.out
             /\ wire' = wire \o r.sent
             /\ IF ~IsNone(r.out)
                THEN pc' = "write" /\ UNCHANGED ret
                ELSE pc' = "finally" /\ ret' = FALSE
    /\ UNCHANGED <<op, check_live, devices, rules, rules_file, commands,
                   config_file, backups, backup_dir, clock, i, k, dm, leaked,
                   results, summary, total_score>>

\* config = device_manager.get_running_config(); if not config: return False
BackupGetConfig ==
    /\ op = "backup" /\ pc = "get_config"
    /\ \E answer \in TransportAnswers(dm, AnswerTexts) :
         LET r == get_running_config(dm, answer)
         IN  /\ config' = r.out
             /\ wire' = wire \o r.sent
             /\ IF Truthy(r.out)
                THEN pc' = "write" /\ UNCHANGED ret
                ELSE pc' = "finally" /\ ret' = FALSE
    /\ UNCHANGED <<op, check_live, devices, rules, rules_file, commands,
                   config_file, backups, backup_dir, clock, i, k, dm, leaked,
                   results, summary, total_score>>

\* The file is written under the host and the time of writing; a failure
\* of open or write is caught by the except clause, which returns False.
BackupWrite ==
    /\ op = "backup" /\ pc = "write"
    /\ \E t \in clock..MaxClock, write_ok \in BOOLEAN :
         /\ clock' = t
         /\ IF write_ok
            THEN /\ backups' = WriteBackup(backups, Hostname(devices[i]), t, config)
                 /\ ret' = TRUE
            ELSE /\ ret' = FALSE
                 /\ UNCHANGED backups
    /\ pc' = "finally"
    /\ UNCHANGED <<op, check_live, devices, rules, rules_file, commands,
                   config_file, backup_dir, i, k, dm, leaked, wire, config,
                   results, summary, total_score>>

\* A return from backup_device that leaves the session as it is.
BackupFinally_SkipsDisconnect ==
    /\ op = "backup" /\ pc = "finally"
    /\ dm' = dm
    /\ summary' = BackupRecorded(summary, devices[i], ret)
    /\ i' = i + 1
    /\ pc' = "loop"
    /\ UNCHANGED <<op, check_live, devices, rules, rules_file, commands,
                   config_file, backups, backup_dir, clock, k, leaked, wire,
                   config, results, total_score, ret>>

\* finally: device_manager.disconnect(); then backup_device returns and the
\* loop records the outcome.
BackupFinally ==
    /\ op = "backup" /\ pc = "finally"
    /\ dm' = disconnect(dm)
    /\ summary' = BackupRecorded(summary, devices[i], ret)
    /\ i' = i + 1
    /\ pc' = "loop"
    /\ UNCHANGED <<op, check_live, devices, rules, rules_file, commands,
                   config_file, backups, backup_dir, clock, k, leaked, wire,
                   config, results, total_score, ret>>

\* return results
BackupReturn ==
    /\ op = "backup" /\ pc = "loop" /\ i > Len(devices)
    /\ pc' = "done"
    /\ UNCHANGED <<op, check_live, devices, rules, rules_file, commands,
                   config_file, backups, backup_dir, clock, i, k, dm, leaked,
                   wire, config, results, summary, total_score, ret>>

NextBackup ==
    \/ BackupStart
    \/ BackupConnect
    \/ BackupGetConfig
    \/ BackupWrite
    \/ BackupFinally
    \/ BackupReturn

(***************************************************************************)
(* ComplianceChecker (config_compliance.py).                               *)
(***************************************************************************)
\* results['rule_results'].append(rule_result) and the passed/failed count.
AddVerdict(res, verdict) ==
    [res EXCEPT !.rule_results = Append(@, verdict),
                !.passed = IF verdict.compliant THEN @ + 1 ELSE @,
                !.failed = IF verdict.compliant THEN @ ELSE @ + 1]

\* A score cut to two decimals instead of rounded.
ComplianceScore_Truncates(passed, total_rules) ==
    {(10000 * passed) \div total_rules}

\* round((passed / total_rules) * 100, 2), in hundredths of a percent.
ComplianceScore(passed, total_rules) == Round2(10000 * passed, total_rules)

\* round(total_score / total_devices, 2)
OverallCompliance(score_sum, total_devices) == Round2(score_sum, total_devices)

\* rule.check(config_text, device_manager) for one rule: a command rule with
\* a device manager sends its command first.
EvaluateRule(rule) ==
    IF rule.rule_type = "command" /\ dm.exists
    THEN \E answer \in (IF IsNone(rule.command) THEN {NoneVal}
                        ELSE TransportAnswers(dm, AnswerTexts)) :
           LET r == send_command(dm, rule.command, answer)
           IN  /\ results' = AddVerdict(results, check(rule, config, TRUE, r.out))
               /\ wire' = wire \o r.sent
    ELSE /\ results' = AddVerdict(results, check(rule, config, dm.exists, NoneVal))
         /\ UNCHANGED wire

\* for rule_data in rules_data.get('rules', []): the records are appended
\* one by one; a record without a required key raises KeyError, which ends
\* the loading with the rules appended so far.
RECURSIVE LoadPrefix(_)
LoadPrefix(data) ==
    IF data = <<>> THEN <<>>
    ELSE IF ~Head(data).complete THEN <<>>
    ELSE <<Head(data).rule>> \o LoadPrefix(Tail(data))

\* The rules _create_default_rules writes.
DefaultRules ==
    <<ComplianceRule("NTP Server Configured", "must_contain", <<"ntp server">>,
                     NoneVal, NoneVal),
      ComplianceRule("SSH Version 2", "regex", <<"ip ssh version 2">>,
                     NoneVal, NoneVal),
      ComplianceRule("No Telnet", "must_not_contain",
                     <<"transport input telnet">>, NoneVal, NoneVal),
      ComplianceRule("Logging Configured", "must_contain", <<"logging">>,
                     NoneVal, NoneVal),
      ComplianceRule("SNMP Community", "must_not_contain",
                     <<"snmp-server community public">>, NoneVal, NoneVal)>>

\* ComplianceChecker.__init__: self.rules = []; self.load_rules().  A
\* missing file is replaced by the default rules, which are then loaded,
\* unless the file cannot be written; a file that does not parse leaves the
\* rule list empty.
LoadRules ==
    /\ op = "check" /\ pc = "load"
    /\ CASE rules_file.kind = "rules" ->
              /\ rules' = rules \o LoadPrefix(rules_file.data)
              /\ UNCHANGED rules_file
         [] rules_file.kind = "missing" ->
              \E write_ok \in BOOLEAN :
                  IF write_ok
                  THEN /\ rules_file' = FileOf(DefaultRules)
                       /\ rules' = rules \o LoadPrefix(FileOf(DefaultRules).data)
                  ELSE UNCHANGED <<rules, rules_file>>
         [] OTHER -> UNCHANGED <<rules, rules_file>>
    /\ pc' = "loop"
    /\ UNCHANGED <<op, check_live, devices, commands, config_file, backups,
                   backup_dir, clock, i, k, dm, leaked, wire, config, results,
                   summary, total_score, ret>>

\* check_device up to the configuration source.  Live: the DeviceManager is
\* built.  Offline: the latest file of the backup directory whose name
\* starts with the hostname is read; without one (or without the directory,
\* where listdir raises into the except clause) results is returned as is.
CheckStart ==
    /\ op = "check" /\ pc = "loop" /\ i <= Len(devices)
    /\ results' = FreshResults(devices[i])
    /\ wire' = <<>>
    /\ k' = 1
    /\ leaked' = LeakedAfter(dm)
    /\ IF check_live
       THEN /\ dm' = DeviceManager(devices[i])
            /\ config' = NoneVal
            /\ pc' = "connect"
       ELSE /\ dm' = NoManager
            /\ LET found == BackupsOf(backups, Hostname(devices[i]))
               IN  IF backup_dir /\ found # {}
                   THEN config' = LatestBackup(found).text /\ pc' = "rules"
                   ELSE config' = NoneVal /\ pc' = "finally"
    /\ UNCHANGED <<op, check_live, devices, rules, rules_file, commands,
                   config_file, backups, backup_dir, clock, i, summary,
                   total_score, ret>>

\* if device_manager.connect(): ... else: return results.  The call is
\* inside the try: an exception of connect ends in the except clause.
CheckConnect ==
    /\ op = "check" /\ pc = "connect"
    /\ \E transport_ok \in BOOLEAN :
         LET r == connect(dm, transport_ok)
         IN  /\ dm' = r.dm
             /\ leaked' = leaked + (IF r.dropped THEN 1 ELSE 0)
             /\ pc' = IF r.ret = "True" THEN "get_config" ELSE "finally"
    /\ UNCHANGED <<op, check_live, devices, rules, rules_file, commands,
                   config_file, backups, backup_dir, clock, i, k, wire,
                   config, results, summary, total_score, ret>>

\* A check that closes its session as soon as the configuration is read,
\* before the rules are evaluated.
CheckGetConfig_DisconnectsEarly ==
    /\ op = "check" /\ pc = "get_config"
    /\ \E answer \in TransportAnswers(dm, AnswerTexts) :
         LET r == get_running_config(dm, answer)
         IN  /\ config' = r.out
             /\ wire' = wire \o r.sent
    /\ dm' = disconnect(dm)
    /\ pc' = "rules"
    /\ UNCHANGED <<op, check_live, devices, rules, rules_file, commands,
                   config_file, backups, backup_dir, clock, i, k, leaked,
                   results, summary, total_score, ret>>

\* config_text = device_manager.get_running_config()
CheckGetConfig ==
    /\ op = "check" /\ pc = "get_config"
    /\ \E answer \in TransportAnswers(dm, AnswerTexts) :
         LET r == get_running_config(dm, answer)
         IN  /\ config' = r.out
             /\ wire' = wire \o r.sent
    /\ pc' = "rules"
    /\ UNCHANGED <<op, check_live, devices, rules, rules_file, commands,
                   config_file, backups, backup_dir, clock, i, k, dm, leaked,
                   results, summary, total_score, ret>>

\* A rule loop that a faulty rule leaves: the fault reaches check_device's
\* own except clause and the remaining rules are not evaluated.
CheckRule_AbortsOnFault ==
    /\ op = "check" /\ pc = "rules" /\ k <= Len(rules)
    /\ IF /\ rules[k].rule_type # "command"
          /\ check(rules[k], config, dm.exists, NoneVal).message.text
               = "Error checking rule: "
       THEN pc' = "finally" /\ UNCHANGED <<results, wire, k>>
       ELSE EvaluateRule(rules[k]) /\ k' = k + 1 /\ UNCHANGED pc
    /\ UNCHANGED <<op, check_live, devices, rules, rules_file, commands,
                   config_file, backups, backup_dir, clock, i, dm, leaked,
                   config, summary, total_score, ret>>

\* One turn of  for rule in self.rules
CheckRule ==
    /\ op = "check" /\ pc = "rules" /\ k <= Len(rules)
    /\ EvaluateRule(rules[k])
    /\ k' = k + 1
    /\ UNCHANGED <<op, check_live, devices, rules, rules_file, commands,
                   config_file, backups, backup_dir, clock, pc, i, dm, leaked,
                   config, summary, total_score, ret>>

\* if results['total_rules'] > 0: results['compliance_score'] = round(...)
CheckScore ==
    /\ op = "check" /\ pc = "rules" /\ k > Len(rules)
    /\ IF results.total_rules > 0
       THEN \E score \in ComplianceScore(results.passed, results.total_rules) :
              results' = [results EXCEPT !.compliance_score = score]
       ELSE UNCHANGED results
    /\ pc' = "finally"
    /\ UNCHANGED <<op, check_live, devices, rules, rules_file, commands,
                   config_file, backups, backup_dir, clock, i, k, dm, leaked,
                   wire, config, summary, total_score, ret>>

\* finally: if device_manager: device_manager.disconnect(); return results,
\* which check_all_devices appends and adds to total_score.
CheckFinally ==
    /\ op = "check" /\ pc = "finally"
    /\ dm' = IF dm.exists THEN disconnect(dm) ELSE dm
    /\ summary' = [summary EXCEPT !.device_results = Append(@, results)]
    /\ total_score' = total_score + results.compliance_score
    /\ i' = i + 1
    /\ pc' = "loop"
    /\ UNCHANGED <<op, check_live, devices, rules, rules_file, commands,
                   config_file, backups, backup_dir, clock, k, leaked, wire,
                   config, results, ret>>

\* A mean taken over the devices that were evaluated only.
CheckReturn_MeanOfEvaluated ==
    /\ op = "check" /\ pc = "loop" /\ i > Len(devices)
    /\ LET evaluated == {j \in 1..Len(summary.device_results) :
                           summary.device_results[j].rule_results # <<>>}
       IN  IF evaluated # {}
           THEN \E overall \in Round2(total_score, Cardinality(evaluated)) :
                  summary' = [summary EXCEPT !.overall_compliance = overall]
           ELSE UNCHANGED summary
    /\ pc' = "done"
    /\ UNCHANGED <<op, check_live, devices, rules, rules_file, commands,
                   config_file, backups, backup_dir, clock, i, k, dm, leaked,
                   wire, config, results, total_score, ret>>

\* if summary['total_devices'] > 0: overall_compliance = round(...); return
CheckReturn ==
    /\ op = "check" /\ pc = "loop" /\ i > Len(devices)
    /\ IF summary.total_devices > 0
       THEN \E overall \in OverallCompliance(total_score, summary.total_devices) :
              summary' = [summary EXCEPT !.overall_compliance = overall]
       ELSE UNCHANGED summary
    /\ pc' = "done"
    /\ UNCHANGED <<op, check_live, devices, rules, rules_file, commands,
                   config_file, backups, backup_dir, clock, i, k, dm, leaked,
                   wire, config, results, total_score, ret>>

NextCheck ==
    \/ CheckStart
    \/ CheckConnect
    \/ CheckGetConfig
    \/ CheckRule
    \/ CheckScore
    \/ CheckFinally
    \/ CheckReturn

(***************************************************************************)
(* ConfigDeploy (config_deploy.py): main's loop over deploy_commands.      *)
(***************************************************************************)
\* logger.info(f"{hostname}: {'SUCCESS' if success else 'FAILED'}")
DeployRecorded(sum, device, success) ==
    [sum EXCEPT !.devices = Append(@, [host |-> Hostname(device),
                                       status |-> IF success THEN "SUCCESS"
                                                  ELSE "FAILED"])]

\* The loop takes the next device.  With a configuration file,
\* deploy_from_file reads it and hands the parsed lines to deploy_commands;
\* a file that cannot be read ends in its except clause, which returns
\* False.  deploy_commands builds its DeviceManager.
DeployStart ==
    /\ op = "deploy" /\ pc = "loop" /\ i <= Len(devices)
    /\ \E read_ok \in (IF config_file.exists THEN BOOLEAN ELSE {TRUE}) :
         IF read_ok
         THEN /\ commands' = (IF config_file.exists
                              THEN ParseCommands(config_file.lines)
                              ELSE commands)
              /\ dm' = DeviceManager(devices[i])
              /\ leaked' = LeakedAfter(dm)
              /\ wire' = <<>>
              /\ pc' = "connect"
              /\ UNCHANGED <<summary, i, ret>>
         ELSE /\ ret' = FALSE
              /\ summary' = DeployRecorded(summary, devices[i], FALSE)
              /\ i' = i + 1
              /\ UNCHANGED <<commands, dm, leaked, wire, pc>>
    /\ UNCHANGED <<op, check_live, devices, rules, rules_file, config_file,
                   backups, backup_dir, clock, k, config, results,
                   total_score>>

\* if not device_manager.connect(): return False  (outside the try)
DeployConnect ==
    /\ op = "deploy" /\ pc = "connect"
    /\ \E transport_ok \in BOOLEAN :
         LET r == connect(dm, transport_ok)
         IN  /\ dm' = r.dm
             /\ leaked' = leaked + (IF r.dropped THEN 1 ELSE 0)
             /\ CASE r.ret = "True" ->
                       /\ pc' = "send_config"
                       /\ UNCHANGED <<summary, i, ret>>
                  [] r.ret = "False" ->
                       /\ ret' = FALSE
                       /\ summary' = DeployRecorded(summary, devices[i], FALSE)
                       /\ i' = i + 1
                       /\ pc' = "loop"
                  [] OTHER ->
                       /\ pc' = "raised"
                       /\ UNCHANGED <<summary, i, ret>>
    /\ UNCHANGED <<op, check_live, devices, rules, rules_file, commands,
                   config_file, backups, backup_dir, clock, k, wire, config,
                   results, total_score>>

\* A deployment that persists whatever the batch returned.
DeploySendConfig_PersistsRegardless ==
    /\ op = "deploy" /\ pc = "send_config"
    /\ \E answer \in TransportAnswers(dm, AnswerTexts) :
         wire' = wire \o send_config(dm, commands, answer).sent
    /\ pc' = "save"
    /\ UNCHANGED <<op, check_live, devices, rules, rules_file, commands,
                   config_file, backups, backup_dir, clock, i, k, dm, leaked,
                   config, results, summary, total_score, ret>>

\* output = device_manager.send_config(commands); if output: ... else: False
DeploySendConfig ==
    /\ op = "deploy" /\ pc = "send_config"
    /\ \E answer \in TransportAnswers(dm, AnswerTexts) :
         LET r == send_config(dm, commands, answer)
         IN  /\ wire' = wire \o r.sent
             /\ IF Truthy(r.out)
                THEN pc' = "save" /\ UNCHANGED ret
                ELSE pc' = "finally" /\ ret' = FALSE
    /\ UNCHANGED <<op, check_live, devices, rules, rules_file, commands,
                   config_file, backups, backup_dir, clock, i, k, dm, leaked,
                   config, results, summary, total_score>>

\* device_manager.save_config(); return True  (the result is not read)
DeploySave ==
    /\ op = "deploy" /\ pc = "save"
    /\ \E answer \in TransportAnswers(dm, AnswerTexts) :
         wire' = wire \o save_config(dm, answer).sent
    /\ ret' = TRUE
    /\ pc' = "finally"
    /\ UNCHANGED <<op, check_live, devices, rules, rules_file, commands,
                   config_file, backups, backup_dir, clock, i, k, dm, leaked,
                   config, results, summary, total_score>>

\* finally: device_manager.disconnect(); deploy_commands returns to main
DeployFinally ==
    /\ op = "deploy" /\ pc = "finally"
    /\ dm' = disconnect(dm)
    /\ summary' = DeployRecorded(summary, devices[i], ret)
    /\ i' = i + 1
    /\ pc' = "loop"
    /\ UNCHANGED <<op, check_live, devices, rules, rules_file, commands,
                   config_file, backups, backup_dir, clock, k, leaked, wire,
                   config, results, total_score, ret>>

DeployReturn ==
    /\ op = "deploy" /\ pc = "loop" /\ i > Len(devices)
    /\ pc' = "done"
    /\ UNCHANGED <<op, check_live, devices, rules, rules_file, commands,
                   config_file, backups, backup_dir, clock, i, k, dm, leaked,
                   wire, config, results, summary, total_score, ret>>

NextDeploy ==
    \/ DeployStart
    \/ DeployConnect
    \/ DeploySendConfig
    \/ DeploySave
    \/ DeployFinally
    \/ DeployReturn

(***************************************************************************)
(* DeviceManager called on its own: any sequence of its methods.  summary  *)
(* is the log of the calls made: the call, whether the session was         *)
(* connected when it was made, how many requests it handed to the          *)
(* transport, and what it returned.                                        *)
(***************************************************************************)
Call(name, forwarded, ok, out) ==
    [call |-> name, connected |-> dm.connected, forwarded |-> forwarded,
     ok |-> ok, out |-> out]

SessionConnect ==
    /\ op = "session" /\ pc = "session" /\ Len(summary) < MaxCalls
    /\ \E transport_ok \in BOOLEAN :
         LET r == connect(dm, transport_ok)
         IN  /\ dm' = r.dm
             /\ leaked' = leaked + (IF r.dropped THEN 1 ELSE 0)
             /\ IF r.ret = "KeyError"
                THEN pc' = "raised" /\ UNCHANGED <<summary, ret>>
                ELSE /\ ret' = (r.ret = "True")
                     /\ summary' = Append(summary,
                                          Call("connect", 0, r.ret = "True", <<>>))
                     /\ UNCHANGED pc
    /\ UNCHANGED <<op, check_live, devices, rules, rules_file, commands,
                   config_file, backups, backup_dir, clock, i, k, wire,
                   config, results, total_score>>

SessionDisconnect ==
    /\ op = "session" /\ pc = "session" /\ Len(summary) < MaxCalls
    /\ dm' = disconnect(dm)
    /\ summary' = Append(summary, Call("disconnect", 0, TRUE, <<>>))
    /\ UNCHANGED <<op, check_live, devices, rules, rules_file, commands,
                   config_file, backups, backup_dir, clock, pc, i, k, leaked,
                   wire, config, results, total_score, ret>>

SessionSendCommand ==
    /\ op = "session" /\ pc = "session" /\ Len(summary) < MaxCalls
    /\ \E answer \in TransportAnswers(dm, AnswerTexts) :
         LET r == send_command(dm, CmdRule, answer)
         IN  /\ config' = r.out
             /\ wire' = wire \o r.sent
             /\ summary' = Append(summary, Call("send_command", Len(r.sent),
                                                ~IsNone(r.out), r.out))
    /\ UNCHANGED <<op, check_live, devices, rules, rules_file, commands,
                   config_file, backups, backup_dir, clock, pc, i, k, dm,
                   leaked, results, total_score, ret>>

SessionSendConfig ==
    /\ op = "session" /\ pc = "session" /\ Len(summary) < MaxCalls
    /\ \E answer \in TransportAnswers(dm, AnswerTexts) :
         LET r == send_config(dm, commands, answer)
         IN  /\ config' = r.out
             /\ wire' = wire \o r.sent
             /\ summary' = Append(summary, Call("send_config", Len(r.sent),
                                                ~IsNone(r.out), r.out))
    /\ UNCHANGED <<op, check_live, devices, rules, rules_file, commands,
                   config_file, backups, backup_dir, clock, pc, i, k, dm,
                   leaked, results, total_score, ret>>

SessionGetRunningConfig ==
    /\ op = "session" /\ pc = "session" /\ Len(summary) < MaxCalls
    /\ \E answer \in TransportAnswers(dm, AnswerTexts) :
         LET r == get_running_config(dm, answer)
         IN  /\ config' = r.out
             /\ wire' = wire \o r.sent
             /\ summary' = Append(summary, Call("get_running_config", Len(r.sent),
                                                ~IsNone(r.out), r.out))
    /\ UNCHANGED <<op, check_live, devices, rules, rules_file, commands,
                   config_file, backups, backup_dir, clock, pc, i, k, dm,
                   leaked, results, total_score, ret>>

SessionSaveConfig ==
    /\ op = "session" /\ pc = "session" /\ Len(summary) < MaxCalls
    /\ \E answer \in TransportAnswers(dm, AnswerTexts) :
         LET r == save_config(dm, answer)
         IN  /\ ret' = r.ret
             /\ wire' = wire \o r.sent
             /\ summary' = Append(summary, Call("save_config", Len(r.sent),
                                                r.ret, <<>>))
    /\ UNCHANGED <<op, check_live, devices, rules, rules_file, commands,
                   config_file, backups, backup_dir, clock, pc, i, k, dm,
                   leaked, config, results, total_score>>

NextSession ==
    \/ SessionConnect
    \/ SessionDisconnect
    \/ SessionSendCommand
    \/ SessionSendConfig
    \/ SessionGetRunningConfig
    \/ SessionSaveConfig

(***************************************************************************)
(* ComplianceRule.check called on its own.                                 *)
(***************************************************************************)
ApplyRule ==
    /\ op = "rule" /\ pc = "rule"
    /\ EvaluateRule(rules[1])
    /\ pc' = "done"
    /\ UNCHANGED <<op, check_live, devices, rules, rules_file, commands,
                   config_file, backups, backup_dir, clock, i, k, dm, leaked,
                   config, summary, total_score, ret>>

(***************************************************************************)
(* Initial states.                                                         *)
(***************************************************************************)
MustContainA ==
    ComplianceRule("has a", "must_contain", <<"a">>, NoneVal, NoneVal)
MustNotContainA ==
    ComplianceRule("no a", "must_not_contain", <<"a">>, NoneVal, NoneVal)
NoPattern ==
    ComplianceRule("no pattern", "must_contain", NoneVal, NoneVal, NoneVal)
BadRegex ==
    ComplianceRule("bad regex", "regex", <<ParenChar>>, NoneVal, NoneVal)
CommandA ==
    ComplianceRule("command a", "command", NoneVal, <<"a">>, CmdRule)
CommandNoValue ==
    ComplianceRule("command no value", "command", NoneVal, NoneVal, CmdRule)

\* Rule lists of the orchestrator runs.
RuleSets == {<<>>, <<MustContainA>>, <<MustNotContainA, CommandA>>}

\* Rules of the single-device checks.
DeviceRuleBase == {MustContainA, NoPattern, BadRegex, CommandA, CommandNoValue}

\* Rules of the scoring checks: on a text either both pass or one does.
ScoreRuleBase == {MustContainA, MustNotContainA}

\* Every shape of rule record for check called on its own.
AllRules ==
    {ComplianceRule(t, t, p, NoneVal, NoneVal) :
        t \in {"must_contain", "must_not_contain", "regex"},
        p \in Patterns \cup {NoneVal, <<ParenChar>>}}
    \cup {ComplianceRule("command", "command", NoneVal, v, c) :
            v \in Patterns \cup {NoneVal}, c \in {CmdRule, NoneVal}}
    \cup {ComplianceRule("other", "must_match", <<"a">>, NoneVal, NoneVal)}

\* Backup directories a check can find.
BackupStores ==
    {{}, {File(R10, 0, <<"a">>)},
     {File(R1, 0, <<>>), File(R1, 1, <<"a">>), File(R10, 0, <<>>)}}

BackupSummary(devs) ==
    [total |-> Len(devs), successful |-> 0, failed |-> 0, devices |-> <<>>]

CheckSummary(devs) ==
    [total_devices |-> Len(devs), device_results |-> <<>>,
     overall_compliance |-> 0]

DeploySummary == [devices |-> <<>>]

NoResults ==
    [device |-> Unknown, total_rules |-> 0, passed |-> 0, failed |-> 0,
     compliance_score |-> 0, rule_results |-> <<>>]

\* The state at the start of an entry point; the fields an entry point does
\* not use hold their empty values.
Start(entry, live, devs, rls, cmds, files, dir, sum, position) ==
    /\ op = entry
    /\ check_live = live
    /\ devices = devs
    /\ rules = rls
    /\ rules_file = (IF entry = "check" THEN FileOf(rls) ELSE NoFile)
    /\ commands = cmds
    /\ config_file = NoConfigFile
    /\ backups = files
    /\ backup_dir = dir
    /\ clock = 0
    /\ pc = position
    /\ i = 1
    /\ k = 1
    /\ dm = NoManager
    /\ leaked = 0
    /\ wire = <<>>
    /\ config = NoneVal
    /\ results = NoResults
    /\ summary = sum
    /\ total_score = 0
    /\ ret = FALSE

\* backup_all_devices: ConfigBackup.__init__ has made the backup directory.
InitBackup ==
    \E devs \in ListsUpTo(Descriptors, MaxDevices) :
        Start("backup", FALSE, devs, <<>>, <<>>, {}, TRUE, BackupSummary(devs),
              "loop")

\* check_all_devices, live or from the backups.
InitCheck ==
    \E devs \in ListsUpTo(Descriptors, MaxDevices), rls \in RuleSets,
       live \in BOOLEAN, files \in BackupStores, dir \in BOOLEAN :
        /\ live => files = {} /\ dir
        /\ ~dir => files = {}
        /\ Start("check", live, devs, rls, <<>>, files, dir, CheckSummary(devs),
                 "loop")

\* config_deploy.main with --commands
InitDeploy ==
    \E devs \in ListsUpTo(Descriptors, MaxDevices),
       cmds \in {<<>>, <<"hostname r1">>} :
        Start("deploy", FALSE, devs, <<>>, cmds, {}, TRUE, DeploySummary, "loop")

Init == InitBackup \/ InitCheck \/ InitDeploy

Next == NextBackup \/ NextCheck \/ NextDeploy

Spec == Init /\ [][Next]_vars

\* check_all_devices over one device, with every rule list of a rule base.
InitDevice ==
    \E d \in Descriptors, rls \in ListsUpTo(DeviceRuleBase, MaxRules),
       live \in BOOLEAN, files \in BackupStores :
        /\ live => files = {}
        /\ Start("check", live, <<d>>, rls, <<>>, files, TRUE,
                 CheckSummary(<<d>>), "loop")

SpecDevice == InitDevice /\ [][NextCheck]_vars

InitScore ==
    \E rls \in ListsUpTo(ScoreRuleBase, MaxScoreRules), live \in BOOLEAN :
        Start("check", live, <<Descriptor(R1, CiscoIos)>>, rls, <<>>,
              IF live THEN {} ELSE {File(R1, 0, <<"a">>)}, TRUE,
              CheckSummary(<<Descriptor(R1, CiscoIos)>>), "loop")

SpecScore == InitScore /\ [][NextCheck]_vars

\* check(config_text, device_manager) with every rule, every text or None,
\* and no manager, a manager never connected, or a connected one.
RuleManagers ==
    {NoManager, DeviceManager(Descriptor(R1, CiscoIos)),
     connect(DeviceManager(Descriptor(R1, CiscoIos)), TRUE).dm}

InitRule ==
    \E rule \in AllRules, text \in Texts \cup {NoneVal}, m \in RuleManagers :
        /\ op = "rule"
        /\ check_live = m.exists
        /\ devices = <<>>
        /\ rules = <<rule>>
        /\ rules_file = NoFile
        /\ commands = <<>>
        /\ config_file = NoConfigFile
        /\ backups = {}
        /\ backup_dir = TRUE
        /\ clock = 0
        /\ pc = "rule"
        /\ i = 1
        /\ k = 1
        /\ dm = m
        /\ leaked = 0
        /\ wire = <<>>
        /\ config = text
        /\ results = [NoResults EXCEPT !.total_rules = 1]
        /\ summary = CheckSummary(<<>>)
        /\ total_score = 0
        /\ ret = FALSE

NextRule == ApplyRule

SpecRule == InitRule /\ [][NextRule]_vars

\* A rule record of a kind the rule engine does not know.
OtherKind == ComplianceRule("other", "must_match", <<"a">>, NoneVal, NoneVal)

\* Records a rules file can hold.
RuleRecords ==
    {RuleData(MustContainA, TRUE), RuleData(MustNotContainA, TRUE),
     RuleData(OtherKind, TRUE), RuleData(CommandA, FALSE)}

RuleFiles ==
    {NoFile, InvalidFile}
    \cup {[kind |-> "rules", data |-> d] : d \in ListsUpTo(RuleRecords, MaxFileRules)}

\* A ComplianceChecker is constructed on a rules file and check_all_devices
\* is called over one device.
InitLoad ==
    \E file \in RuleFiles, live \in BOOLEAN :
        /\ op = "check"
        /\ check_live = live
        /\ devices = <<Descriptor(R1, CiscoIos)>>
        /\ rules = <<>>
        /\ rules_file = file
        /\ commands = <<>>
        /\ config_file = NoConfigFile
        /\ backups = (IF live THEN {} ELSE {File(R1, 0, <<"a">>)})
        /\ backup_dir = TRUE
        /\ clock = 0
        /\ pc = "load"
        /\ i = 1
        /\ k = 1
        /\ dm = NoManager
        /\ leaked = 0
        /\ wire = <<>>
        /\ config = NoneVal
        /\ results = NoResults
        /\ summary = CheckSummary(<<Descriptor(R1, CiscoIos)>>)
        /\ total_score = 0
        /\ ret = FALSE

NextLoad == LoadRules \/ NextCheck

SpecLoad == InitLoad /\ [][NextLoad]_vars

\* Lines of a configuration file: blank, comment and command lines.
ConfigLines ==
    {<<>>, <<SpaceChar>>, <<HashChar, "x">>, <<SpaceChar, HashChar>>, <<"x">>,
     <<SpaceChar, "x", SpaceChar>>, <<"x", HashChar>>}

\* The deploy loop over one device, from a configuration file or with the
\* command list given.
InitFileDeploy ==
    \E d \in {Descriptor(R1, CiscoIos), Descriptor(R10, JuniperJunos)},
       file \in {ConfigFile(l) : l \in ListsUpTo(ConfigLines, MaxFileLines)}
                \cup {NoConfigFile},
       cmds \in {<<>>, << <<"x">> >>} :
        /\ file.exists => cmds = <<>>
        /\ op = "deploy"
        /\ check_live = FALSE
        /\ devices = <<d>>
        /\ rules = <<>>
        /\ rules_file = NoFile
        /\ commands = cmds
        /\ config_file = file
        /\ backups = {}
        /\ backup_dir = TRUE
        /\ clock = 0
        /\ pc = "loop"
        /\ i = 1
        /\ k = 1
        /\ dm = NoManager
        /\ leaked = 0
        /\ wire = <<>>
        /\ config = NoneVal
        /\ results = NoResults
        /\ summary = DeploySummary
        /\ total_score = 0
        /\ ret = FALSE

SpecDeploy == InitFileDeploy /\ [][NextDeploy]_vars

\* Device families of the sessions: the known ones, an unknown one, the
\* empty string, no device_type at all, and a known one in upper case.
Families ==
    {CiscoIos, JuniperJunos, AristaEos, Linux, <<>>, NoneVal, JuniperJunosUpper}

SessionDescriptors ==
    {Descriptor(R1, f) : f \in Families} \cup {Descriptor(NoneVal, CiscoIos)}

\* A DeviceManager is constructed and its methods are called in any order.
InitSession ==
    \E d \in SessionDescriptors :
        /\ op = "session"
        /\ check_live = FALSE
        /\ devices = <<>>
        /\ rules = <<>>
        /\ rules_file = NoFile
        /\ commands = <<"hostname r1">>
        /\ config_file = NoConfigFile
        /\ backups = {}
        /\ backup_dir = TRUE
        /\ clock = 0
        /\ pc = "session"
        /\ i = 1
        /\ k = 1
        /\ dm = DeviceManager(d)
        /\ leaked = 0
        /\ wire = <<>>
        /\ config = NoneVal
        /\ results = NoResults
        /\ summary = <<>>
        /\ total_score = 0
        /\ ret = FALSE

SpecSession == InitSession /\ [][NextSession]_vars

\* The state before check(config_text, device_manager) is called on a rule.
RuleStart(rule, text, m) ==
    /\ op = "rule"
    /\ check_live = m.exists
    /\ devices = <<>>
    /\ rules = <<rule>>
    /\ rules_file = NoFile
    /\ commands = <<>>
    /\ config_file = NoConfigFile
    /\ backups = {}
    /\ backup_dir = TRUE
    /\ clock = 0
    /\ pc = "rule"
    /\ i = 1
    /\ k = 1
    /\ dm = m
    /\ leaked = 0
    /\ wire = <<>>
    /\ config = text
    /\ results = [NoResults EXCEPT !.total_rules = 1]
    /\ summary = CheckSummary(<<>>)
    /\ total_score = 0
    /\ ret = FALSE

\* Regular expressions of literals and '.', and texts long enough to hold
\* more matches than are kept as evidence.
RegexPatterns == StringsUpTo(Chars \cup {DotChar}, MaxPatLen)
MatchTexts == StringsUpTo(Chars, MaxMatchLen)

\* check(config_text) of a regex rule.
InitMatch ==
    \E p \in RegexPatterns, text \in MatchTexts :
        RuleStart(ComplianceRule("regex", "regex", p, NoneVal, NoneVal), text,
                  NoManager)

SpecMatch == InitMatch /\ [][NextRule]_vars

(***************************************************************************)
(* Properties.                                                             *)
(***************************************************************************)
\* No operation is in flight: the orchestrator is between two devices, has
\* returned, or was left by an exception.
Returned == pc \in {"loop", "done", "raised"}

\* C1: backup_all_devices processes every device of its list: whatever
\* makes one backup fail, the call is not left by an exception, and once it
\* has returned every device of the list has been recorded.
C1_BackupProcessesEveryDevice ==
    op = "backup" =>
        /\ pc # "raised"
        /\ pc = "done" => Len(summary.devices) = Len(devices)

\* A backup of the host itself is stored: a file named host_<time>.txt.
HasStoredBackup(device) ==
    \E t \in 0..MaxClock, f \in backups : f.name = FileName(Hostname(device), t)

\* C2: check_all_devices accounts for every device: total_devices is the
\* length of the list, device_results holds one result per device in input
\* order, also after a device that failed, and a device that failed (its
\* connect failed in live mode, no backup of it is stored in offline mode)
\* appears with score 0.
C2_CheckAccountsForEveryDevice ==
    op = "check" /\ Returned =>
        /\ pc # "raised"
        /\ summary.total_devices = Len(devices)
        /\ Len(summary.device_results) = i - 1
        /\ pc = "done" => Len(summary.device_results) = Len(devices)
        /\ \A j \in 1..Len(summary.device_results) :
             /\ summary.device_results[j].device = Hostname(devices[j])
             /\ ~check_live /\ ~HasStoredBackup(devices[j])
                  => summary.device_results[j].compliance_score = 0
        /\ check_live /\ i > 1 /\ ~dm.connection
             => summary.device_results[i - 1].compliance_score = 0

\* C3: when backup_device, deploy_commands or a live check_device returns,
\* on any path, its session is disconnected: the channel is closed and the
\* connected flag is false; no channel is left open behind.
C3_SessionReleasedOnReturn ==
    /\ leaked = 0
    /\ Returned => ~dm.open /\ ~dm.connected

\* A backup that connected, read the configuration and then failed in the
\* write (the exception path) has returned.
C3_Witness ==
    /\ op = "backup" /\ pc = "loop" /\ i > 1
    /\ dm.connection /\ Truthy(config) /\ ret = FALSE
    /\ wire # <<>>

\* C4: the summary backup_all_devices returns has total = number of
\* devices, successful + failed = total, and one entry per device, in input
\* order, with status 'success' for as many devices as successful counts.
C4_BackupSummaryConsistent ==
    op = "backup" /\ pc = "done" =>
        /\ summary.total = Len(devices)
        /\ summary.successful + summary.failed = summary.total
        /\ Len(summary.devices) = Len(devices)
        /\ \A j \in 1..Len(summary.devices) :
             /\ summary.devices[j].host = Hostname(devices[j])
             /\ summary.devices[j].status \in {"success", "failed"}
        /\ Cardinality({j \in 1..Len(summary.devices) :
                          summary.devices[j].status = "success"})
             = summary.successful

\* A returned summary with a device backed up after a device that failed.
C4_Witness ==
    /\ op = "backup" /\ pc = "done" /\ Len(devices) >= 2
    /\ summary.devices[1].status = "failed"
    /\ summary.devices[2].status = "success"

\* The result of the device whose check returned last.
LastResult == summary.device_results[i - 1]

\* C5: a device whose configuration could not be obtained during a
\* compliance check (the live connect failed, the live retrieval returned
\* no output, or no backup of it is stored) is recorded with no rule
\* evaluated (empty verdict list, nothing passed, nothing failed) and
\* compliance score 0.
C5_UnavailableScoredZero ==
    op = "check" /\ Returned /\ i > 1
    /\ (\/ check_live /\ ~dm.connection
        \/ check_live /\ dm.connection /\ ~Truthy(config)
        \/ ~check_live /\ ~HasStoredBackup(devices[i - 1]))
    => /\ LastResult.rule_results = <<>>
       /\ LastResult.passed = 0
       /\ LastResult.failed = 0
       /\ LastResult.compliance_score = 0

RECURSIVE ScoreSum(_)
ScoreSum(device_results) ==
    IF device_results = <<>> THEN 0
    ELSE Head(device_results).compliance_score + ScoreSum(Tail(device_results))

Abs(n) == IF n < 0 THEN -n ELSE n

\* value is num/den rounded to a nearest integer
IsRounded(value, num, den) == 2 * Abs(value * den - num) <= den

\* C6: the overall compliance check_all_devices returns is the mean of the
\* per-device scores, rounded to two decimals, over all input devices: a
\* device no rule was evaluated for has score 0 and is counted in the
\* denominator; an empty device list yields 0.
C6_OverallIsMeanOverAllDevices ==
    op = "check" /\ pc = "done" =>
        /\ Len(summary.device_results) = Len(devices)
        /\ \A j \in 1..Len(devices) :
             summary.device_results[j].rule_results = <<>>
               => summary.device_results[j].compliance_score = 0
        /\ IF devices = <<>>
           THEN summary.overall_compliance = 0
           ELSE IsRounded(summary.overall_compliance,
                          ScoreSum(summary.device_results), Len(devices))

\* Three devices: the first unreachable, the others fully compliant.
C6_Witness ==
    /\ op = "check" /\ pc = "done" /\ Len(devices) = 3 /\ rules # <<>>
    /\ summary.device_results[1].rule_results = <<>>
    /\ summary.device_results[2].compliance_score = 10000
    /\ summary.device_results[3].compliance_score = 10000
    /\ summary.overall_compliance = 6667

\* check_device got past the configuration source (a live connect that
\* succeeded, or a backup that was read) and is leaving through finally.
Scored == op = "check" /\ pc = "finally" /\ (dm.connection \/ ~IsNone(config))

CompliantCount(rule_results) ==
    Cardinality({j \in 1..Len(rule_results) : rule_results[j].compliant})

\* C7: for a device whose configuration was obtained, compliance_score is
\* 100 * passed / total_rules rounded to two decimals, passed being the
\* number of compliant verdicts (3 of 5 gives 60.00); with no rule the score
\* is 0.
C7_ScoreIsRoundedPercentage ==
    Scored =>
        /\ results.total_rules = Len(rules)
        /\ results.passed = CompliantCount(results.rule_results)
        /\ results.total_rules = 0 => results.compliance_score = 0
        /\ results.total_rules > 0 =>
             IsRounded(results.compliance_score, 10000 * results.passed,
                       results.total_rules)
        /\ results.passed = 3 /\ results.total_rules = 5
             => results.compliance_score = 6000

C7_Witness ==
    /\ Scored /\ Truthy(config)
    /\ results.total_rules = 5
    /\ CompliantCount(results.rule_results) = 3
    /\ results.compliance_score = 6000

\* p occurs in T: some offset a of T carries p character by character.
IsSubstring(p, T) ==
    \E a \in 0..Len(T) :
        /\ a + Len(p) <= Len(T)
        /\ \A n \in 1..Len(p) : T[a + n] = p[n]

\* In a live check the first command on the wire is the read command; the
\* command rules follow in rule order.
CommandIndex(j) ==
    1 + Cardinality({n \in 1..j : rules[n].rule_type = "command"})

\* Rule j met a fault: a regular expression that does not compile, a
\* missing pattern, a missing required value, a command without output.
RuleFault(j) ==
    \/ rules[j].rule_type = "regex" /\ rules[j].pattern = <<ParenChar>>
    \/ /\ rules[j].rule_type \in {"must_contain", "must_not_contain", "regex"}
       /\ IsNone(rules[j].pattern)
    \/ /\ rules[j].rule_type = "command" /\ dm.exists
       /\ IsNone(rules[j].required_value)
    \/ /\ rules[j].rule_type = "command" /\ dm.exists
       /\ IsNone(wire[CommandIndex(j)].out)

\* C8: a fault while one rule is evaluated gives that rule a non-compliant
\* verdict whose message carries the error text, and the check goes on: the
\* verdict list holds one verdict per rule, in load order, for the rules
\* before and after the faulty one.
C8_RuleFaultIsAVerdict ==
    op = "check" =>
        /\ Len(results.rule_results) <= Len(rules)
        /\ \A j \in 1..Len(results.rule_results) :
             /\ results.rule_results[j].rule = rules[j].name
             /\ RuleFault(j) =>
                  /\ ~results.rule_results[j].compliant
                  /\ results.rule_results[j].message.text = "Error checking rule: "
                  /\ results.rule_results[j].message.arg # <<>>
        /\ Scored => Len(results.rule_results) = Len(rules)

\* A malformed regular expression between two rules that pass.
C8_Witness ==
    /\ Scored /\ Len(rules) = 3 /\ rules[2] = BadRegex
    /\ results.rule_results[1].compliant
    /\ results.rule_results[2].message = Message("Error checking rule: ",
                                                 ErrRegexCompile)
    /\ results.rule_results[3].compliant

\* C9: a command rule always gets a verdict.  With a device manager its
\* command is sent and it is compliant iff the required value is a
\* substring of the output; without one (every offline check) it is
\* non-compliant with the message that no device manager was provided, and
\* the rules after it are still evaluated.
C9_CommandRuleAlwaysHasVerdict ==
    op = "check" =>
        /\ \A j \in 1..Len(results.rule_results) :
             rules[j].rule_type = "command" =>
               IF dm.exists
               THEN /\ wire[CommandIndex(j)].cmd = rules[j].command
                    /\ results.rule_results[j].compliant
                         <=> /\ ~IsNone(wire[CommandIndex(j)].out)
                             /\ ~IsNone(rules[j].required_value)
                             /\ IsSubstring(rules[j].required_value,
                                            wire[CommandIndex(j)].out)
               ELSE /\ ~results.rule_results[j].compliant
                    /\ results.rule_results[j].message.text
                         = "No device manager provided for command check"
        /\ Scored => Len(results.rule_results) = Len(rules)

\* An offline check: the command rule is reported without a session and
\* the rule after it passes.
C9_Witness ==
    /\ Scored /\ ~check_live /\ rules = <<CommandA, MustContainA>>
    /\ Len(results.rule_results) = 2
    /\ ~results.rule_results[1].compliant
    /\ results.rule_results[2].compliant

\* The rule of the other containment kind with the same pattern.
Opposite(rule) ==
    [rule EXCEPT !.rule_type = IF @ = "must_contain" THEN "must_not_contain"
                               ELSE "must_contain"]

\* C10: for a pattern p and a text T, must_contain(p) is compliant iff p
\* occurs in T as an exact, case-sensitive substring, must_not_contain(p)
\* iff it does not; of the two rules exactly one is compliant.
C10_ContainmentRules ==
    /\ op = "rule" /\ pc = "done"
    /\ rules[1].rule_type \in {"must_contain", "must_not_contain"}
    /\ ~IsNone(rules[1].pattern) /\ ~IsNone(config)
    => /\ rules[1].rule_type = "must_contain" =>
            (results.rule_results[1].compliant
               <=> IsSubstring(rules[1].pattern, config))
       /\ rules[1].rule_type = "must_not_contain" =>
            (results.rule_results[1].compliant
               <=> ~IsSubstring(rules[1].pattern, config))
       /\ results.rule_results[1].compliant
            # check(Opposite(rules[1]), config, dm.exists, NoneVal).compliant

\* The pattern occurs only in the other letter case: must_not_contain passes.
C10_Witness ==
    /\ op = "rule" /\ pc = "done"
    /\ rules[1].rule_type = "must_not_contain"
    /\ rules[1].pattern = <<"a">> /\ config = <<"A", "A">>
    /\ results.rule_results[1].compliant

\* The regular expression p matches the text T at offset a.
MatchAt(p, T, a) ==
    /\ a + Len(p) <= Len(T)
    /\ \A n \in 1..Len(p) : p[n] = DotChar \/ p[n] = T[a + n]

\* The first offset from a on where p matches T; Len(T) + 1 when none is.
FirstMatch(p, T, a) ==
    IF \E b \in a..Len(T) : MatchAt(p, T, b)
    THEN CHOOSE b \in a..Len(T) :
           MatchAt(p, T, b) /\ \A c \in a..(b - 1) : ~MatchAt(p, T, c)
    ELSE Len(T) + 1

\* Where the search resumes after a match at offset a.
AfterMatch(p, a) == a + (IF Len(p) = 0 THEN 1 ELSE Len(p))

\* The offset of the j-th match of p in T, in order of occurrence.
RECURSIVE MatchOffset(_, _, _)
MatchOffset(p, T, j) ==
    IF j = 1 THEN FirstMatch(p, T, 0)
    ELSE FirstMatch(p, T, AfterMatch(p, MatchOffset(p, T, j - 1)))

\* C11: a regex rule is compliant iff its pattern matches somewhere in the
\* text.  Compliant, its details are the first matches in order of
\* occurrence, at least 1 and at most 5, all of them when there are fewer
\* than 5; not compliant, its details are None.
C11_RegexEvidence ==
    op = "rule" /\ pc = "done" /\ rules[1].rule_type = "regex"
    /\ ~IsNone(rules[1].pattern) /\ RegexCompiles(rules[1].pattern)
    /\ ~IsNone(config)
    => LET p == rules[1].pattern
           verdict == results.rule_results[1]
           evidence == verdict.details.val
       IN  /\ verdict.compliant <=> \E a \in 0..Len(config) : MatchAt(p, config, a)
           /\ ~verdict.compliant => verdict.details = [kind |-> "None", val |-> <<>>]
           /\ verdict.compliant =>
                /\ verdict.details.kind = "matches"
                /\ Len(evidence) >= 1 /\ Len(evidence) <= 5
                /\ \A j \in 1..Len(evidence) :
                     /\ MatchOffset(p, config, j) <= Len(config)
                     /\ evidence[j]
                          = SubSeq(config, MatchOffset(p, config, j) + 1,
                                   MatchOffset(p, config, j) + Len(p))
                /\ Len(evidence) < 5 =>
                     MatchOffset(p, config, Len(evidence) + 1) > Len(config)

\* Six matches in the text, the first five kept in order.
C11_Witness ==
    /\ op = "rule" /\ pc = "done"
    /\ rules[1].rule_type = "regex" /\ rules[1].pattern = <<DotChar>>
    /\ config = <<"a", "A", "a", "a", "A", "A">>
    /\ results.rule_results[1].details.val
         = << <<"a">>, <<"A">>, <<"a">>, <<"a">>, <<"A">> >>

\* C12: a rule record whose kind is not one of must_contain,
\* must_not_contain, regex, command is rejected when the rule set is loaded:
\* the rule list that is evaluated and counted in total_rules holds no rule
\* of another kind.
C12_UnknownKindRejected ==
    op = "check" /\ pc # "load" =>
        /\ \A j \in 1..Len(rules) : rules[j].rule_type \in RuleTypes
        /\ results.total_rules
             <= Cardinality({j \in 1..Len(rules_file.data) :
                               rules_file.data[j].rule.rule_type \in RuleTypes})

\* The last call made on the session.
LastCall == summary[Len(summary)]

\* C13: connect never raises to its caller: for every descriptor and every
\* failure it returns False and leaves the session not connected.
C13_ConnectNeverRaises ==
    op = "session" =>
        /\ pc # "raised"
        /\ summary # <<>> /\ LastCall.call = "connect" /\ ~LastCall.ok
             => ~dm.connected

\* C14: send_command and send_config on a session that is not connected
\* (never connected, connect failed, or disconnected) fail fast: the call
\* hands nothing to the transport and returns the error outcome.
C14_SendOnDisconnectedFailsFast ==
    op = "session" =>
        \A j \in 1..Len(summary) :
            /\ summary[j].call \in {"send_command", "send_config"}
            /\ ~summary[j].connected
            => /\ summary[j].forwarded = 0
               /\ ~summary[j].ok
               /\ IsNone(summary[j].out)

\* C15: disconnect is idempotent and always safe: in every session state
\* (never connected, connected, disconnected) the call returns without
\* raising, after it the session is disconnected (flag false, channel
\* closed), and a second call leaves the state exactly as the first left it.
C15_DisconnectIdempotent ==
    op = "session" =>
        /\ pc = "session" /\ summary # <<>> /\ LastCall.call = "disconnect"
             => ~dm.connected /\ ~dm.open
        /\ ~disconnect(dm).connected /\ ~disconnect(dm).open
        /\ disconnect(disconnect(dm)) = disconnect(dm)

\* A session was connected and then disconnected twice.
C15_Witness ==
    /\ op = "session" /\ Len(summary) = 3
    /\ summary[1].call = "connect" /\ summary[1].ok
    /\ summary[2].call = "disconnect" /\ summary[2].connected
    /\ summary[3].call = "disconnect" /\ ~summary[3].connected
    /\ ~dm.connected /\ ~dm.open

\* Letters in upper and in lower case.
UpperLetters == <<"A", "C", "E", "I", "J", "N", "O", "P", "R", "S", "T", "U">>
LowerLetters == <<"a", "c", "e", "i", "j", "n", "o", "p", "r", "s", "t", "u">>

FoldChar(c) ==
    IF \E n \in 1..Len(UpperLetters) : UpperLetters[n] = c
    THEN LowerLetters[CHOOSE n \in 1..Len(UpperLetters) : UpperLetters[n] = c]
    ELSE c

\* The string s in lower case.
FoldCase(s) == [n \in 1..Len(s) |-> FoldChar(s[n])]

\* The family string of the session's device; '' when it has none.
Family == IF IsNone(dm.device_config.device_type) THEN <<>>
          ELSE dm.device_config.device_type

\* The family string names a juniper device and no cisco device.
IsJuniperFamily(f) == IsSubstring(Juniper, f) /\ ~IsSubstring(Cisco, f)

\* The family string spells a known family in another letter case only.
OtherCaseOnly(f) ==
    \E name \in {Cisco, Juniper, Arista} :
        IsSubstring(name, FoldCase(f)) /\ ~IsSubstring(name, f)

\* The number of requests the first j calls handed to the transport.
RECURSIVE Forwarded(_)
Forwarded(j) == IF j = 0 THEN 0 ELSE Forwarded(j - 1) + summary[j].forwarded

\* The session's manager as it would be with an open connection.
Connected(m) == [m EXCEPT !.connection = TRUE, !.connected = TRUE, !.open = TRUE]

\* C16: vendor dispatch is total and stateless.  For every family string,
\* the empty one and an absent device_type included, get_running_config
\* selects exactly one read command ('show configuration' for a juniper
\* family, 'show running-config' for cisco, arista and unmatched families)
\* and save_config exactly one persist action (commit for juniper, the
\* device-native save for the others), whatever the session went through
\* before.  A family spelled in another letter case is only required to
\* resolve to one of the commands.
C16_VendorDispatchTotal ==
    op = "session" =>
        LET read == get_running_config(Connected(dm), <<"a">>).sent
            persist == save_config(Connected(dm), <<"a">>).sent
        IN  /\ Len(read) = 1 /\ Len(persist) = 1
            /\ read[1].cmd \in {CmdShowConfiguration, CmdShowRunningConfig}
            /\ persist[1].cmd \in {CmdCommit, CmdSaveConfig}
            /\ ~OtherCaseOnly(Family) =>
                 /\ read[1].cmd = (IF IsJuniperFamily(Family)
                                   THEN CmdShowConfiguration
                                   ELSE CmdShowRunningConfig)
                 /\ persist[1].cmd = (IF IsJuniperFamily(Family)
                                      THEN CmdCommit ELSE CmdSaveConfig)
            /\ \A j \in 1..Len(summary) :
                 /\ summary[j].call = "get_running_config"
                      => /\ summary[j].forwarded <= 1
                         /\ summary[j].forwarded = 1
                              => wire[Forwarded(j)].cmd = read[1].cmd
                 /\ summary[j].call = "save_config"
                      => /\ summary[j].forwarded <= 1
                         /\ summary[j].forwarded = 1
                              => wire[Forwarded(j)].cmd = persist[1].cmd

\* A juniper session that read its configuration and then committed.
C16_Witness ==
    /\ op = "session" /\ Len(summary) = 3 /\ Family = JuniperJunos
    /\ summary[2].call = "get_running_config" /\ summary[2].forwarded = 1
    /\ summary[3].call = "save_config" /\ summary[3].forwarded = 1
    /\ wire[1].cmd = CmdShowConfiguration
    /\ wire[2].cmd = CmdCommit

\* C17: vendor dispatch matches the known families without regard to
\* letter case: a family string resolves to the read command and the
\* persist action of the same string in lower case.
C17_VendorDispatchIgnoresCase ==
    op = "session" =>
        LET folded == [dm EXCEPT !.device_config.device_type = FoldCase(Family)]
        IN  /\ get_running_config(Connected(dm), <<"a">>).sent
                 = get_running_config(Connected(folded), <<"a">>).sent
            /\ save_config(Connected(dm), <<"a">>).sent
                 = save_config(Connected(folded), <<"a">>).sent
            /\ \A j \in 1..Len(summary) :
                 /\ summary[j].forwarded = 1
                 /\ summary[j].call = "get_running_config"
                 => wire[Forwarded(j)].cmd
                      = (IF IsJuniperFamily(FoldCase(Family))
                         THEN CmdShowConfiguration ELSE CmdShowRunningConfig)

\* The persist step of the device in hand failed: the last request on the
\* wire is the save or the commit, and the transport answered with an error.
PersistFailed ==
    /\ wire # <<>>
    /\ wire[Len(wire)].cmd \in {CmdSaveConfig, CmdCommit}
    /\ IsNone(wire[Len(wire)].out)

\* C18: when the persist step fails after the batch was applied,
\* deploy_commands surfaces it: its result is not the one of a fully
\* successful deployment.
C18_PersistFailureSurfaced ==
    op = "deploy" /\ PersistFailed =>
        /\ pc = "finally" => ~ret
        /\ pc \in {"loop", "done"} => summary.devices[i - 1].status # "SUCCESS"

\* The line holds no command: it is blank or a '#' comment.
NoCommandIn(line) ==
    \/ \A n \in 1..Len(line) : line[n] = SpaceChar
    \/ \E h \in 1..Len(line) :
         line[h] = HashChar /\ \A n \in 1..(h - 1) : line[n] = SpaceChar

\* The deployment has no command to send.
NothingToDeploy ==
    IF config_file.exists
    THEN \A n \in 1..Len(config_file.lines) : NoCommandIn(config_file.lines[n])
    ELSE commands = <<>>

\* C19: a deployment whose command list is empty is not attempted: no
\* session is opened, nothing is sent to the device, and the deployment
\* reports failure.
C19_EmptyDeploymentNotAttempted ==
    op = "deploy" /\ NothingToDeploy =>
        /\ ~dm.exists
        /\ wire = <<>>
        /\ \A j \in 1..Len(summary.devices) : summary.devices[j].status = "FAILED"

C21_FailedOutcomeHasDiagnostic ==
    /\ op = "backup" =>
         \A j \in 1..Len(summary.devices) :
             summary.devices[j].status = "failed"
               => "message" \in DOMAIN summary.devices[j]
    /\ op = "check" /\ check_live /\ Returned /\ i > 1 /\ ~dm.connection
         => {"status", "message"} \subseteq DOMAIN LastResult

\* The text of the most recently written backup of the host itself.
OwnLatestText(hostname) ==
    LET latest == CHOOSE t \in 0..MaxClock :
                    /\ \E f \in backups : f.name = FileName(hostname, t)
                    /\ \A u \in (t + 1)..MaxClock :
                         \A f \in backups : f.name # FileName(hostname, u)
    IN  (CHOOSE f \in backups : f.name = FileName(hostname, latest)).text

\* C22: the offline configuration source is per host: an offline check of
\* host h evaluates the rules on the most recently stored backup of h
\* itself, never on a file of another host; with no backup of h stored
\* there is no configuration and no rule is evaluated.
C22_OfflineSourcePerHost ==
    op = "check" /\ ~check_live /\ pc \in {"rules", "finally"} =>
        IF HasStoredBackup(devices[i])
        THEN config = OwnLatestText(Hostname(devices[i]))
        ELSE IsNone(config) /\ results.rule_results = <<>>

\* The number of transport channels open: the one of the operation in
\* hand and those left open by managers that went out of scope.
OpenSessions == leaked + (IF dm.open THEN 1 ELSE 0)

\* C23: at every point of an orchestrator run there is at most one open
\* session, so never two to the same device, also when the list names a
\* host twice: when the session of a device is about to be opened every
\* earlier session is closed, and an open session is the one of the device
\* in hand.
C23_OneSessionAtATime ==
    op \in {"backup", "check", "deploy"} =>
        /\ OpenSessions <= 1
        /\ pc = "connect" => OpenSessions = 0
        /\ dm.open => i <= Len(devices) /\ dm.device_config = devices[i]

\* The list names the same host twice; the second session is open after
\* the first backup succeeded.
C23_Witness ==
    /\ op = "backup" /\ i = 2 /\ Len(devices) >= 2
    /\ devices[1].host = devices[2].host
    /\ summary.devices[1].status = "success"
    /\ dm.open /\ pc = "write"


(***************************************************************************)
(* Cancellation.  The code has no cancellation entry point of its own: an  *)
(* operator abort is the KeyboardInterrupt that Ctrl-C raises in the       *)
(* running statement.  KeyboardInterrupt is not an Exception, so the       *)
(* except Exception clauses do not take it; the finally clause runs and    *)
(* then the interrupt leaves backup_device and backup_all_devices (or      *)
(* check_device and check_all_devices), which have no handler: the call    *)
(* ends in pc = "interrupted" and returns nothing.                         *)
(***************************************************************************)
\* Ctrl-C inside backup_device's try while the session is open.
BackupInterrupt ==
    /\ op = "backup" /\ pc \in {"get_config", "write"} /\ dm.open
    /\ dm' = disconnect(dm)
    /\ pc' = "interrupted"
    /\ UNCHANGED <<op, check_live, devices, rules, rules_file, commands,
                   config_file, backups, backup_dir, clock, i, k, leaked, wire,
                   config, results, summary, total_score, ret>>

\* Ctrl-C inside check_device's try while the session is open.
CheckInterrupt ==
    /\ op = "check" /\ pc \in {"get_config", "rules"} /\ dm.exists /\ dm.open
    /\ dm' = disconnect(dm)
    /\ pc' = "interrupted"
    /\ UNCHANGED <<op, check_live, devices, rules, rules_file, commands,
                   config_file, backups, backup_dir, clock, i, k, leaked, wire,
                   config, results, summary, total_score, ret>>

\* backup_all_devices and live check_all_devices under an operator who may
\* abort.
InitCancel ==
    \/ InitBackup
    \/ \E devs \in ListsUpTo(Descriptors, MaxDevices), rls \in RuleSets :
         Start("check", TRUE, devs, rls, <<>>, {}, TRUE, CheckSummary(devs),
               "loop")

NextCancel == NextBackup \/ NextCheck \/ BackupInterrupt \/ CheckInterrupt

SpecCancel == InitCancel /\ [][NextCancel]_vars

\* What the caller of backup_all_devices / check_all_devices holds once the
\* call is over: the summary, when the call ended in its return statement.
SummaryReturned == pc = "done"

\* C24: when an operation is cancelled while a device operation holds an
\* open session, every open session is closed before the call is over, and
\* the call returns the partial summary with the outcomes of the devices
\* completed before the cancellation.
C24_CancellationClosesAndReturnsPartial ==
    pc = "interrupted" =>
        /\ OpenSessions = 0
        /\ SummaryReturned
        /\ op = "backup" => Len(summary.devices) = i - 1
        /\ op = "check" => Len(summary.device_results) = i - 1

\* The half of C24 that the finally clauses do deliver.
C24_CancellationClosesSession == pc = "interrupted" => OpenSessions = 0

\* The request on the wire is the persist step's: the save or the commit.
IsPersist(entry) == entry.cmd \in {CmdSaveConfig, CmdCommit}

\* C25: deploy_commands goes connect, apply, persist, disconnect in that
\* order.  The persist step is taken exactly when the connect succeeded and
\* the batch returned non-empty output, after the apply and before the
\* disconnect; after a failed connect nothing is applied or persisted; when
\* the apply returns empty or no output nothing is persisted and the
\* deployment returns failure.
C25_DeployStep ==
    op = "deploy" =>
      /\ pc = "connect" /\ pc' = "send_config"
           => dm'.connected /\ dm'.open /\ wire' = <<>>
      /\ pc = "connect" /\ pc' # "send_config"
           => /\ wire' = <<>> /\ ~dm'.open
              /\ pc' \in {"loop", "raised"}
              /\ pc' = "loop" => summary'.devices[i].status = "FAILED"
      /\ pc = "send_config"
           => /\ dm.open /\ dm' = dm
              /\ Len(wire') = 1 /\ wire'[1].cmd = CmdSendConfigSet
              /\ pc' = "save" <=> Truthy(wire'[1].out)
              /\ pc' # "save" => pc' = "finally" /\ ~ret'
      /\ pc = "save"
           => /\ dm.open /\ dm' = dm
              /\ Len(wire') = 2 /\ wire'[1] = wire[1] /\ IsPersist(wire'[2])
              /\ pc' = "finally"
      /\ pc = "finally"
           => /\ wire' = wire /\ ~dm'.open /\ pc' = "loop"
              /\ ret <=> Len(wire) = 2
              /\ summary'.devices[i].status = (IF ret THEN "SUCCESS" ELSE "FAILED")

C25_DeployOrder == [][C25_DeployStep]_vars

C25_Witness ==
    /\ op = "deploy" /\ pc = "loop" /\ i = 2
    /\ Len(wire) = 2 /\ Truthy(wire[1].out) /\ IsPersist(wire[2])
    /\ ~dm.open
    /\ summary.devices[1].status = "SUCCESS"

\* C26: after every sequence of connect and disconnect calls on one
\* DeviceManager (a second connect on a connected manager included, whether
\* it succeeds or fails) the connected flag is true exactly when the
\* manager holds an open channel: no channel is open while connected is
\* false, and no channel was dropped without being closed.
C26_ConnectedIffOpenChannel ==
    /\ op = "session"
    /\ \A j \in 1..Len(summary) : summary[j].call \in {"connect", "disconnect"}
    => /\ dm.connected <=> dm.open
       /\ leaked = 0

\* C27: save_config returns True only if the persist action selected for
\* the device family was carried out without error: for every family, when
\* the save or the commit fails, or there is no connection to send it on,
\* save_config returns False.
C27_SaveConfigReportsPersist ==
    op = "session" /\ summary # <<>> /\ LastCall.call = "save_config"
                   /\ LastCall.ok
    => /\ LastCall.forwarded = 1
       /\ IsPersist(wire[Len(wire)])
       /\ ~IsNone(wire[Len(wire)].out)

\* C28: in every run of backup_device, deploy_commands and check_device,
\* each command that reaches a device is sent after the successful connect
\* of that operation's own session and before its disconnect: the step that
\* puts a request on the wire is taken by the manager of the device in
\* hand, connected and open before and after the step.  An offline
\* check_device opens no session and sends no command.
C28_SendStep ==
    /\ wire' # wire /\ wire' # <<>>
         => /\ op \in {"backup", "check", "deploy"}
            /\ Len(wire') = Len(wire) + 1
            /\ dm.exists /\ dm.connected /\ dm.open
            /\ dm.device_config = devices[i]
            /\ dm' = dm
    /\ op = "check" /\ ~check_live
         => wire' = <<>> /\ ~dm'.exists /\ ~dm'.open /\ leaked' = 0

C28_CommandsWithinOwnSession == [][C28_SendStep]_vars

C28_Witness ==
    /\ op = "check" /\ check_live /\ pc = "rules"
    /\ Len(wire) = 2 /\ wire[2].cmd = CmdRule
    /\ dm.connected /\ dm.open /\ dm.device_config = devices[i]

\* The rules of every record of a rules file, in file order.
AllRecords(data) == [j \in 1..Len(data) |-> data[j].rule]

\* C29: rule loading is all-or-nothing.  After load_rules the rule list
\* holds every record of the file, once each and in file order, or it holds
\* none: a malformed record never leaves a truncated prefix of the file
\* loaded, and no rule is loaded twice.
C29_LoadAllOrNothing ==
    op = "check" /\ pc # "load" =>
        rules \in {<<>>, AllRecords(rules_file.data)}
====
